---- MODULE Spec2Model ----
(***************************************************************************)
(* Batch BPM Converter (src/app.py): the filename tempo detector, the      *)
(* atempo stage planner, the output-name sanitiser and the ConvertTask     *)
(* worker, as state machines.                                              *)
(*                                                                         *)
(* Text is a sequence of characters; a character is a one-element token    *)
(* ("a", "7", "_", ...).  The token "U+00E9" stands for a non-ASCII        *)
(* letter: a word character of the regex engine that [A-Za-z] excludes.    *)
(***************************************************************************)
EXTENDS Integers, Sequences, FiniteSets, TLC

VARIABLES
    \* ---- guess_bpm_from_name as a call: argument, position, result
    bpmName, bpmPc, bpmResult,
    \* ---- atempo_chain as a call: the two tempi, the loop's r (num/den),
    \*      the factors list, the formatted stages, position
    sourceBpm, targetBpm, r, factors, chain, chainPc,
    \* ---- safe_out_path as a call: arguments, first and second result
    pathSrc, pathFlat, pathSuffix, pathOut, pathOut2, pathPc,
    \* ---- ConvertTask: constructor fields, environment, run() locals, signals
    files, target_bpm, overwrite, flat_names, suffix_label,
    ffmpegFound, fs,
    pc, i, processed, skipped,
    messages, progress, finished, invoked,
    \* ---- App: the summary lines on_finished has logged
    summary

bpmVars   == <<bpmName, bpmPc, bpmResult>>
chainVars == <<sourceBpm, targetBpm, r, factors, chain, chainPc>>
pathVars  == <<pathSrc, pathFlat, pathSuffix, pathOut, pathOut2, pathPc>>
taskVars  == <<files, target_bpm, overwrite, flat_names, suffix_label,
               ffmpegFound, fs, pc, i, processed, skipped,
               messages, progress, finished, invoked, summary>>
vars      == <<bpmVars, chainVars, pathVars, taskVars>>

(***************************************************************************)
(* Characters and text                                                     *)
(***************************************************************************)
LowerLetters == <<"a","b","c","d","e","f","g","h","i","j","k","l","m",
                  "n","o","p","q","r","s","t","u","v","w","x","y","z">>
UpperLetters == <<"A","B","C","D","E","F","G","H","I","J","K","L","M",
                  "N","O","P","Q","R","S","T","U","V","W","X","Y","Z">>
DigitChars   == <<"0","1","2","3","4","5","6","7","8","9">>

Range(f) == {f[k] : k \in DOMAIN f}

IsDigit(c) == c \in Range(DigitChars)
IsAsciiAlpha(c) == c \in Range(LowerLetters) \cup Range(UpperLetters)
IsSpace(c) == c = " "
\* \w of the regex engine: letters of any script, digits, underscore
IsWordChar(c) == IsAsciiAlpha(c) \/ IsDigit(c) \/ c = "_" \/ c = "U+00E9"

IndexIn(seq, c) == CHOOSE k \in DOMAIN seq : seq[k] = c

\* str.lower() on one character
LowerChar(c) ==
    IF c \in Range(UpperLetters) THEN LowerLetters[IndexIn(UpperLetters, c)] ELSE c

Lower(s) == [k \in 1..Len(s) |-> LowerChar(s[k])]

DigitVal(c) == IndexIn(DigitChars, c) - 1

\* int("0128") = 128
RECURSIVE ToInt(_)
ToInt(s) == IF s = <<>> THEN 0
            ELSE 10 * ToInt(SubSeq(s, 1, Len(s) - 1)) + DigitVal(s[Len(s)])

\* str(128) = "128": no leading zeros
RECURSIVE StrOfInt(_)
StrOfInt(n) == IF n < 10 THEN <<DigitChars[n + 1]>>
               ELSE StrOfInt(n \div 10) \o <<DigitChars[(n % 10) + 1]>>

\* sub occurs in s at 1-based position p
OccursAt(s, sub, p) ==
    /\ p >= 1
    /\ p + Len(sub) - 1 <= Len(s)
    /\ \A k \in 1..Len(sub) : s[p + k - 1] = sub[k]

Contains(s, sub) == \E p \in 1..(Len(s) + 1) : OccursAt(s, sub, p)

\* str.rfind: the 0-based index of the last occurrence, -1 when there is none
RFind(s, sub) ==
    LET hits == {p \in 1..(Len(s) + 1) : OccursAt(s, sub, p)}
    IN  IF hits = {} THEN -1
        ELSE (CHOOSE p \in hits : \A q \in hits : q <= p) - 1

\* the maximal run of digits starting at position p
RECURSIVE DigitRunLen(_, _)
DigitRunLen(s, p) ==
    IF p > Len(s) \/ ~IsDigit(s[p]) THEN 0 ELSE 1 + DigitRunLen(s, p + 1)

\* PurePath.name: the text after the last "/"
PathName(path) ==
    LET slashes == {p \in 1..Len(path) : path[p] = "/"}
    IN  IF slashes = {} THEN path
        ELSE SubSeq(path, (CHOOSE p \in slashes : \A q \in slashes : q <= p) + 1,
                    Len(path))

\* the position of the dot that starts PurePath.suffix, 0 when there is none:
\* the last dot, unless it is the first or the last character of the name
SuffixDot(name) ==
    LET dots == {p \in 1..Len(name) : name[p] = "."}
        last == CHOOSE p \in dots : \A q \in dots : q <= p
    IN  IF dots = {} THEN 0
        ELSE IF 1 < last /\ last < Len(name) THEN last ELSE 0

PathStem(name) ==
    IF SuffixDot(name) = 0 THEN name ELSE SubSeq(name, 1, SuffixDot(name) - 1)

PathSuffix(name) ==
    IF SuffixDot(name) = 0 THEN <<>> ELSE SubSeq(name, SuffixDot(name), Len(name))

(***************************************************************************)
(* guess_bpm_from_name                                                     *)
(***************************************************************************)
BPM_MIN == 40
BPM_MAX == 220
KeywordBonus == 50
\* None: "no BPM"; run() tests it with "not bpm"
None == 0

InBpmRange(n) == BPM_MIN <= n /\ n <= BPM_MAX

IsTagSep(c) == IsSpace(c) \/ c = "_" \/ c = "-"

RECURSIVE SkipTagSeps(_, _)
SkipTagSeps(s, p) ==
    IF p <= Len(s) /\ IsTagSep(s[p]) THEN SkipTagSeps(s, p + 1) ELSE p

\* RE_BPM_TAGGED matches at p: "bpm" in any case, separators, then a run of
\* exactly 2 or 3 digits (a longer run fails the (?!\d) at every split)
TagMatchAt(s, p) ==
    /\ OccursAt(Lower(s), <<"b","p","m">>, p)
    /\ DigitRunLen(s, SkipTagSeps(s, p + 3)) \in {2, 3}

TagValueAt(s, p) ==
    LET q == SkipTagSeps(s, p + 3)
    IN  ToInt(SubSeq(s, q, q + DigitRunLen(s, q) - 1))

\* RE_BPM_TAGGED.search: the leftmost match position, 0 when there is none
TagSearch(s) ==
    LET hits == {p \in 1..Len(s) : TagMatchAt(s, p)}
    IN  IF hits = {} THEN 0 ELSE CHOOSE p \in hits : \A q \in hits : p <= q

\* RE_ANY_NUMBER_2_3.findall, as ints, in order of occurrence
RECURSIVE Numbers23From(_, _)
Numbers23From(s, p) ==
    IF p > Len(s) THEN <<>>
    ELSE IF ~IsDigit(s[p]) THEN Numbers23From(s, p + 1)
    ELSE LET n == DigitRunLen(s, p)
         IN  (IF n \in {2, 3} THEN <<ToInt(SubSeq(s, p, p + n - 1))>> ELSE <<>>)
             \o Numbers23From(s, p + n)

Numbers23(s) == Numbers23From(s, 1)

SelectSeqInRange(nums) == SelectSeq(nums, InBpmRange)

Keywords == { <<"l","o","o","p">>, <<"d","r","u","m">>, <<"b","e","a","t">>,
              <<"k","i","c","k">>, <<"s","n","a","r","e">>, <<"h","a","t","s">>,
              <<"p","e","r","c">>, <<"g","r","o","o","v","e">> }

HasKeyword(base) == \E k \in Keywords : Contains(Lower(base), k)

\* the score of candidate c: 2 * (len(base) - idx) with idx the last occurrence
\* of str(c), plus the keyword bonus
Score(base, c) ==
    LET idx == RFind(Lower(base), StrOfInt(c))
    IN  (IF idx >= 0 THEN 2 * (Len(base) - idx) ELSE 0)
        + (IF HasKeyword(base) THEN KeywordBonus ELSE 0)

\* scored.sort(key=(score, rfind)); scored[-1]: the stable sort leaves, among
\* the entries of greatest key, the one latest in the list last
KeyLeq(base, a, b) ==
    \/ Score(base, a) < Score(base, b)
    \/ /\ Score(base, a) = Score(base, b)
       /\ RFind(base, StrOfInt(a)) <= RFind(base, StrOfInt(b))

SortedLast(base, cands) ==
    LET top  == {k \in DOMAIN cands :
                    \A j \in DOMAIN cands : KeyLeq(base, cands[j], cands[k])}
        last == CHOOSE k \in top : \A j \in top : j <= k
    IN  cands[last]

guess_bpm_from_name(name) ==
    LET base  == PathStem(PathName(name))
        m     == TagSearch(base)
        cands == SelectSeqInRange(Numbers23(base))
    IN  IF m # 0 /\ InBpmRange(TagValueAt(base, m)) THEN TagValueAt(base, m)
        ELSE IF cands = <<>> THEN None
        ELSE SortedLast(base, cands)

(***************************************************************************)
(* atempo_chain.  A float is modelled by the exact fraction n/d in lowest  *)
(* terms: the only rounding in the code is in target/source itself, and    *)
(* halving and doubling are exact in binary floating point.                *)
(***************************************************************************)
\* the 1e-6 of "abs(r - 1.0) > 1e-6", as 1 / TolDen
TolDen == 1000000
\* the six decimals of "{f:.6f}"
FmtDigits == 6

Abs(x) == IF x < 0 THEN -x ELSE x

RECURSIVE GCD(_, _)
GCD(a, b) == IF b = 0 THEN a ELSE GCD(b, a % b)

Frac(n, d) == LET g == GCD(n, d) IN [n |-> n \div g, d |-> d \div g]

Two  == Frac(2, 1)
Half == Frac(1, 2)
One  == Frac(1, 1)

FracLess(a, b) == a.n * b.d < b.n * a.d
FracLeq(a, b)  == a.n * b.d <= b.n * a.d

\* a / b, b one of 2.0 and 0.5
FracDiv(a, b) == Frac(a.n * b.d, a.d * b.n)
FracMul(a, b) == LET g1 == GCD(a.n, b.d)
                     g2 == GCD(b.n, a.d)
                 IN  Frac((a.n \div g1) * (b.n \div g2), (a.d \div g2) * (b.d \div g1))

\* FarFromOne with the tolerance mistyped as 1e-1
FarFromOneCoarse(x) == Abs(x.n - x.d) * 10 > x.d

\* abs(x - 1.0) > 1e-6
FarFromOne(x) == Abs(x.n - x.d) > x.d \div TolDen

RECURSIVE Product(_)
Product(fs_) == IF fs_ = <<>> THEN One
                ELSE FracMul(Product(SubSeq(fs_, 1, Len(fs_) - 1)), fs_[Len(fs_)])

\* the digits of x after the point, by long division: [q, rem] with
\* x * 10^k = q + rem / x.d
RECURSIVE Shift10(_, _, _, _)
Shift10(q, rem, d, k) ==
    IF k = 0 THEN [q |-> q, rem |-> rem]
    ELSE Shift10(10 * q + (10 * rem) \div d, (10 * rem) % d, d, k - 1)

\* "{f:.6f}": the stage in millionths, rounded to nearest, an exact tie to even
\* (a tie is exact only for a value the float holds exactly)
Fmt6(x) ==
    LET s == Shift10(x.n \div x.d, x.n % x.d, x.d, FmtDigits)
    IN  IF 2 * s.rem > x.d THEN s.q + 1
        ELSE IF 2 * s.rem < x.d THEN s.q
        ELSE IF s.q % 2 = 1 THEN s.q + 1 ELSE s.q

FormatChain(fs_) == [k \in 1..Len(fs_) |-> Fmt6(fs_[k])]

(***************************************************************************)
(* _sanitize_base and safe_out_path                                        *)
(***************************************************************************)
Stopwords == { <<"d","r","u","m">>, <<"l","o","o","p">>, <<"f","u","l","l">> }
StopLen == 4
Placeholder == <<"c","o","n","v","e","r","t","e","d">>

NotDigit(c) == ~IsDigit(c)

\* str.replace(old, new) for one character; new = <<>> deletes
RECURSIVE ReplaceChar(_, _, _)
ReplaceChar(s, old, new) ==
    IF s = <<>> THEN <<>>
    ELSE (IF Head(s) = old THEN new ELSE <<Head(s)>>) \o ReplaceChar(Tail(s), old, new)

\* _SANITIZE_STOPWORDS matches at p (ls is s in lower case): a stopword in
\* any case between two \b
StopwordAt(s, ls, p) ==
    /\ \E w \in Stopwords : OccursAt(ls, w, p)
    /\ (p = 1 \/ ~IsWordChar(s[p - 1]))
    /\ (p + StopLen > Len(s) \/ ~IsWordChar(s[p + StopLen]))

RECURSIVE DropMatches(_, _, _)
DropMatches(s, starts, k) ==
    IF k > Len(s) THEN <<>>
    ELSE (IF \E p \in starts : p <= k /\ k < p + StopLen THEN <<>> ELSE <<s[k]>>)
         \o DropMatches(s, starts, k + 1)

\* _SANITIZE_STOPWORDS.sub("", s): matches neither overlap nor touch
RemoveStopwords(s) ==
    LET ls == Lower(s)
    IN  DropMatches(s, {p \in 1..Len(s) : StopwordAt(s, ls, p)}, 1)

\* re.sub(c+, c, s): every run of c becomes one c
RECURSIVE CollapseRuns(_, _)
CollapseRuns(s, c) ==
    IF Len(s) < 2 THEN s
    ELSE IF s[1] = c /\ s[2] = c THEN CollapseRuns(Tail(s), c)
    ELSE <<s[1]>> \o CollapseRuns(Tail(s), c)

RECURSIVE LStrip(_, _)
LStrip(s, cs) == IF s # <<>> /\ Head(s) \in cs THEN LStrip(Tail(s), cs) ELSE s

RECURSIVE RStrip(_, _)
RStrip(s, cs) ==
    IF s # <<>> /\ s[Len(s)] \in cs THEN RStrip(SubSeq(s, 1, Len(s) - 1), cs) ELSE s

\* re.sub([^A-Za-z]+$, "", s)
RECURSIVE StripNonAlphaTail(_)
StripNonAlphaTail(s) ==
    IF s # <<>> /\ ~IsAsciiAlpha(s[Len(s)])
    THEN StripNonAlphaTail(SubSeq(s, 1, Len(s) - 1)) ELSE s

\* _sanitize_base with steps 1 and 3 in the other order: stopwords are removed
\* while the digits are still there
SanitizeStopwordsFirst(base) ==
    LET s2 == ReplaceChar(ReplaceChar(base, "_", <<" ">>), "-", <<" ">>)
        s3 == SelectSeq(RemoveStopwords(s2), NotDigit)
        s4 == RStrip(LStrip(CollapseRuns(s3, " "), {" "}), {" "})
        s5 == CollapseRuns(ReplaceChar(s4, " ", <<"_">>), "_")
        s6 == StripNonAlphaTail(s5)
    IN  IF s6 = <<>> THEN Placeholder ELSE s6

_sanitize_base(base) ==
    LET s1 == SelectSeq(base, NotDigit)
        s2 == ReplaceChar(ReplaceChar(s1, "_", <<" ">>), "-", <<" ">>)
        s3 == RemoveStopwords(s2)
        s4 == RStrip(LStrip(CollapseRuns(s3, " "), {" "}), {" "})
        s5 == CollapseRuns(ReplaceChar(s4, " ", <<"_">>), "_")
        s6 == StripNonAlphaTail(s5)
    IN  IF s6 = <<>> THEN Placeholder ELSE s6

IsLabelChar(c) == IsAsciiAlpha(c) \/ IsDigit(c) \/ c = "_" \/ c = "-"

\* the suffix as safe_out_path normalises it
NormSuffix(suffix) ==
    LET a == RStrip(LStrip(suffix, {" "}), {" "})
        b == CollapseRuns(ReplaceChar(a, " ", <<"_">>), "_")
    IN  SelectSeq(b, IsLabelChar)

\* the output file name: sanitised base, the label, the lower-cased extension
OutName(src, flat_names_, suffix) ==
    LET rel   == IF flat_names_ THEN PathName(src)
                 ELSE ReplaceChar(ReplaceChar(src, ":", <<>>), "/", <<"_">>)
        base  == PathStem(PathName(rel))
        ext   == Lower(PathSuffix(PathName(src)))
        clean == _sanitize_base(base)
        suf   == NormSuffix(suffix)
        cand  == StripNonAlphaTail(CollapseRuns(clean \o <<"_">> \o suf, "_"))
        lab   == IF suffix # <<>> /\ suf # <<>> /\ cand # <<>> THEN cand ELSE clean
        fin   == RStrip(lab, {"_", "-"})
    IN  (IF fin = <<>> THEN Placeholder ELSE fin) \o ext

\* (out_dir / newname).resolve(), out_dir absolute and free of links
safe_out_path(src, out_dir_, target_bpm_, flat_names_, suffix) ==
    out_dir_ \o <<"/">> \o OutName(src, flat_names_, suffix)

(***************************************************************************)
(* Inputs of the three functions, when each is checked as a call of its    *)
(* own.  A name is up to Max... tokens, joined by one separator.           *)
(***************************************************************************)
MaxBpmTokens == 3
BpmTokens == { <<"b","p","m","1","2","0">>,
             <<"b","p","m","3","0","0">>,
             <<"B","P","M","_","9","0">>,
             <<"9","0">>,
             <<"1","2","0">>,
             <<"1","2","8","4">>,
             <<"3","0">>,
             <<"k","i","c","k">>,
             <<"m","i","x">> }
BpmJoins == { <<>>, <<"_">>, <<"-">> }
WavExt == <<".","w","a","v">>

RECURSIVE Joined(_, _, _)
\* every text made of 1..n tokens of toks with join between neighbours
Joined(toks, join, n) ==
    IF n = 1 THEN toks
    ELSE LET shorter == Joined(toks, join, n - 1)
         IN  shorter \cup {a \o join \o t : a \in shorter, t \in toks}

BpmNames == {base \o WavExt :
                base \in UNION {Joined(BpmTokens, j, MaxBpmTokens) : j \in BpmJoins}}

\* tempi: a * scale and b * scale + e.  The largest scale reaches remainders
\* within 1e-6 of 1.0; no pair of the family has a remainder at exactly
\* 1 +- 1e-6, where the float comparison would decide.
MaxBpmUnits == 11
BpmScales == {1, 20, 300000}
BpmOffsets == {-1, 0, 1}
TempoPairs == {<<a * sc, b * sc + e>> :
                  a \in 1..MaxBpmUnits, b \in 1..MaxBpmUnits,
                  sc \in BpmScales, e \in BpmOffsets} \ {<<a, 0>> : a \in 1..MaxBpmUnits}

MaxStemPieces == 3
StemPieces == { <<"d","r","u","m">>,
              <<"L","o","o","p">>,
              <<"k","i","c","k">>,
              <<"1">>,
              <<"_">>,
              <<"-">>,
              <<" ">>,
              <<"U+00E9">> }
SrcDirs == { <<"/","i","n","2">> }
SrcExts == { <<".","W","A","V">> }
OutDir == <<"/","o","u","t">>
PathSuffixes == { <<>>, <<"_","m","i","x">> }
PathSources == {d \o <<"/">> \o st \o x :
                   d \in SrcDirs, st \in Joined(StemPieces, <<>>, MaxStemPieces),
                   x \in SrcExts}

(***************************************************************************)
(* The parts of the state a specification does not use stay idle.          *)
(***************************************************************************)
BpmIdle   == bpmName = <<>> /\ bpmPc = "idle" /\ bpmResult = None
ChainIdle == /\ sourceBpm = 1 /\ targetBpm = 1 /\ r = One
             /\ factors = <<>> /\ chain = <<>> /\ chainPc = "idle"
PathIdle  == /\ pathSrc = <<>> /\ pathFlat = TRUE /\ pathSuffix = <<>>
             /\ pathOut = <<>> /\ pathOut2 = <<>> /\ pathPc = "idle"
TaskIdle  == /\ files = <<>> /\ target_bpm = 100 /\ overwrite = FALSE
             /\ flat_names = TRUE /\ suffix_label = <<>>
             /\ ffmpegFound = TRUE /\ fs = <<>>
             /\ pc = "idle" /\ i = 0 /\ processed = 0 /\ skipped = 0
             /\ messages = <<>> /\ progress = <<>> /\ finished = <<>>
             /\ invoked = <<>> /\ summary = <<>>

(***************************************************************************)
(* guess_bpm_from_name, called on one name                                 *)
(***************************************************************************)
InitBpm ==
    /\ bpmName \in BpmNames
    /\ bpmPc = "call"
    /\ bpmResult = None
    /\ ChainIdle /\ PathIdle /\ TaskIdle

GuessBpm ==
    /\ bpmPc = "call"
    /\ bpmResult' = guess_bpm_from_name(bpmName)
    /\ bpmPc' = "done"
    /\ UNCHANGED <<bpmName, chainVars, pathVars, taskVars>>

NextBpm == GuessBpm
SpecBpm == InitBpm /\ [][NextBpm]_vars

(***************************************************************************)
(* atempo_chain(target / source), statement by statement                   *)
(***************************************************************************)
InitChain ==
    /\ \E p \in TempoPairs : sourceBpm = p[1] /\ targetBpm = p[2]
    /\ r = One
    /\ factors = <<>>
    /\ chain = <<>>
    /\ chainPc = "call"
    /\ BpmIdle /\ PathIdle /\ TaskIdle

\* r = ratio; factors = []  (the ratio of two positive tempi is positive)
ChainEnter ==
    /\ chainPc = "call"
    /\ r' = Frac(targetBpm, sourceBpm)
    /\ factors' = <<>>
    /\ chainPc' = "halve"
    /\ UNCHANGED <<sourceBpm, targetBpm, chain, bpmVars, pathVars, taskVars>>

\* while r > 2.0: factors.append(2.0); r /= 2.0
ChainHalve ==
    /\ chainPc = "halve"
    /\ FracLess(Two, r)
    /\ factors' = Append(factors, Two)
    /\ r' = FracDiv(r, Two)
    /\ UNCHANGED <<sourceBpm, targetBpm, chain, chainPc, bpmVars, pathVars, taskVars>>

ChainHalveExit ==
    /\ chainPc = "halve"
    /\ ~FracLess(Two, r)
    /\ chainPc' = "double"
    /\ UNCHANGED <<sourceBpm, targetBpm, r, factors, chain, bpmVars, pathVars, taskVars>>

\* while r < 0.5: factors.append(0.5); r /= 0.5
ChainDouble ==
    /\ chainPc = "double"
    /\ FracLess(r, Half)
    /\ factors' = Append(factors, Half)
    /\ r' = FracDiv(r, Half)
    /\ UNCHANGED <<sourceBpm, targetBpm, chain, chainPc, bpmVars, pathVars, taskVars>>

ChainDoubleExit ==
    /\ chainPc = "double"
    /\ ~FracLess(r, Half)
    /\ chainPc' = "tail"
    /\ UNCHANGED <<sourceBpm, targetBpm, r, factors, chain, bpmVars, pathVars, taskVars>>

\* if abs(r - 1.0) > 1e-6: factors.append(r);  if not factors: factors = [1.0]
TailFactors(fs_, x) ==
    LET withRest == IF FarFromOne(x) THEN Append(fs_, x) ELSE fs_
    IN  IF withRest = <<>> THEN <<One>> ELSE withRest

\* ... and the return of the formatted stages
ChainReturn ==
    /\ chainPc = "tail"
    /\ factors' = TailFactors(factors, r)
    /\ chain' = FormatChain(factors')
    /\ chainPc' = "done"
    /\ UNCHANGED <<sourceBpm, targetBpm, r, bpmVars, pathVars, taskVars>>

NextChain == \/ ChainEnter \/ ChainHalve \/ ChainHalveExit
             \/ ChainDouble \/ ChainDoubleExit \/ ChainReturn
SpecChain == InitChain /\ [][NextChain]_vars

\* atempo_chain as a function of the ratio: the factors list it builds
RECURSIVE HalveAll(_, _)
HalveAll(x, acc) ==
    IF FracLess(Two, x) THEN HalveAll(FracDiv(x, Two), Append(acc, Two))
    ELSE [r |-> x, factors |-> acc]

RECURSIVE DoubleAll(_, _)
DoubleAll(x, acc) ==
    IF FracLess(x, Half) THEN DoubleAll(FracDiv(x, Half), Append(acc, Half))
    ELSE [r |-> x, factors |-> acc]

atempo_chain(ratio) ==
    LET h == HalveAll(ratio, <<>>)
        d == DoubleAll(h.r, h.factors)
    IN  FormatChain(TailFactors(d.factors, d.r))

(***************************************************************************)
(* safe_out_path, called on a source and then on its own result            *)
(***************************************************************************)
DefaultTargetBpm == 100

InitPath ==
    /\ pathSrc \in PathSources
    /\ pathFlat \in BOOLEAN
    /\ pathSuffix \in PathSuffixes
    /\ pathOut = <<>>
    /\ pathOut2 = <<>>
    /\ pathPc = "call"
    /\ BpmIdle /\ ChainIdle /\ TaskIdle

PathCall ==
    /\ pathPc = "call"
    /\ pathOut' = safe_out_path(pathSrc, OutDir, DefaultTargetBpm, pathFlat, pathSuffix)
    /\ pathPc' = "once"
    /\ UNCHANGED <<pathSrc, pathFlat, pathSuffix, pathOut2, bpmVars, chainVars, taskVars>>

PathReapply ==
    /\ pathPc = "once"
    /\ pathOut2' = safe_out_path(pathOut, OutDir, DefaultTargetBpm, pathFlat, pathSuffix)
    /\ pathPc' = "twice"
    /\ UNCHANGED <<pathSrc, pathFlat, pathSuffix, pathOut, bpmVars, chainVars, taskVars>>

NextPath == PathCall \/ PathReapply
SpecPath == InitPath /\ [][NextPath]_vars

(***************************************************************************)
(* ConvertTask.run and App.on_finished.  The file system is fs: the output *)
(* paths that exist, each with what it holds ("old": there before the run, *)
(* "partial": left by a failed converter, else the source it was made of). *)
(***************************************************************************)
MaxFiles == 2
AvailableFiles == { <<"/","a","/","k","i","c","k","9","0",".","w","a","v">>,
                    <<"/","a","/","k","i","c","k","1","2","0",".","w","a","v">>,
                    <<"/","a","/","p","a","d",".","w","a","v">> }
Labels == { <<>>, <<"m","i","x">> }
TargetBpms == { DefaultTargetBpm }

RECURSIVE ListsUpTo(_, _)
\* the non-empty lists of at most n of the files (App.start returns on an
\* empty list; the list widget keeps what is added twice)
ListsUpTo(S, n) ==
    IF n = 1 THEN {<<f>> : f \in S}
    ELSE LET shorter == ListsUpTo(S, n - 1)
         IN  shorter \cup {Append(l, f) : l \in shorter, f \in S}

\* ConvertTask.__init__: the label becomes "_<label>", or stays empty
SuffixLabelOf(label) == IF label # <<>> THEN <<"_">> \o label ELSE <<>>

Bpm(f) == guess_bpm_from_name(PathName(f))
OutPath(f) == safe_out_path(f, OutDir, target_bpm, flat_names, suffix_label)
Exists(p) == p \in DOMAIN fs
Written(dst, content) ==
    [p \in DOMAIN fs \cup {dst} |-> IF p = dst THEN content ELSE fs[p]]

Max(a, b) == IF a >= b THEN a ELSE b
\* int(i * 100 / max(total, 1))
Percent(k, total) == (k * 100) \div Max(total, 1)

Msg(kind) == [kind |-> kind, file |-> i + 1]

\* SkipsExisting with the overwrite flag read the wrong way round
SkipsExistingInverted(f) == Exists(OutPath(f)) /\ overwrite

\* "outpath.exists() and not self.overwrite"
SkipsExisting(f) == Exists(OutPath(f)) /\ ~overwrite

Init ==
    /\ files \in ListsUpTo(AvailableFiles, MaxFiles)
    /\ target_bpm \in TargetBpms
    /\ overwrite \in BOOLEAN
    /\ flat_names \in BOOLEAN
    /\ \E label \in Labels : suffix_label = SuffixLabelOf(label)
    /\ ffmpegFound \in BOOLEAN
    /\ \E pre \in SUBSET {safe_out_path(files[k], OutDir, target_bpm, flat_names,
                                        suffix_label) : k \in DOMAIN files} :
          fs = [p \in pre |-> "old"]
    /\ pc = "start"
    /\ i = 0
    /\ processed = 0
    /\ skipped = 0
    /\ messages = <<>>
    /\ progress = <<>>
    /\ finished = <<>>
    /\ invoked = <<>>
    /\ summary = <<>>
    /\ BpmIdle /\ ChainIdle /\ PathIdle

others == <<bpmVars, chainVars, pathVars>>
settings == <<files, target_bpm, overwrite, flat_names, suffix_label, ffmpegFound>>

\* processed = 0; skipped = 0; self.out_dir.mkdir(parents=True, exist_ok=True)
RunStart ==
    /\ pc = "start"
    /\ pc' = "loop"
    /\ UNCHANGED <<settings, fs, i, processed, skipped, messages, progress,
                   finished, invoked, summary, others>>

\* the mkdir raises (no permission, a file of that name): run() has no handler
\* around it, and the thread ends
RunMkdirRaises ==
    /\ pc = "start"
    /\ pc' = "raised"
    /\ UNCHANGED <<settings, fs, i, processed, skipped, messages, progress,
                   finished, invoked, summary, others>>

InLoop == pc = "loop" /\ i < Len(files)

\* the end of every iteration: self.progress.emit(...)
EndOfIteration ==
    /\ i' = i + 1
    /\ progress' = Append(progress, Percent(i + 1, Len(files)))
    /\ UNCHANGED <<settings, pc, finished, summary, others>>

\* StepNoBpm that counts the skip and says nothing
StepNoBpmSilent ==
    /\ InLoop
    /\ Bpm(files[i + 1]) = None
    /\ skipped' = skipped + 1
    /\ UNCHANGED <<processed, fs, invoked, messages>>
    /\ EndOfIteration

\* if not bpm: skipped += 1; message
StepNoBpm ==
    /\ InLoop
    /\ Bpm(files[i + 1]) = None
    /\ skipped' = skipped + 1
    /\ messages' = Append(messages, Msg("skip_nobpm"))
    /\ UNCHANGED <<processed, fs, invoked>>
    /\ EndOfIteration

\* if outpath.exists() and not self.overwrite: skipped += 1; message
StepExists ==
    /\ InLoop
    /\ Bpm(files[i + 1]) # None
    /\ SkipsExisting(files[i + 1])
    /\ skipped' = skipped + 1
    /\ messages' = Append(messages, Msg("skip_exists"))
    /\ UNCHANGED <<processed, fs, invoked>>
    /\ EndOfIteration

Reaches(f) == Bpm(f) # None /\ ~SkipsExisting(f)

Call(f, ran) ==
    [file |-> i + 1, dst |-> OutPath(f), ran |-> ran,
     filter |-> IF ran THEN atempo_chain(Frac(target_bpm, Bpm(f))) ELSE <<>>]

\* convert_with_ffmpeg returns (True, "ok"): processed += 1; two messages
StepConverted ==
    /\ InLoop
    /\ Reaches(files[i + 1])
    /\ ffmpegFound
    /\ invoked' = Append(invoked, Call(files[i + 1], TRUE))
    /\ fs' = Written(OutPath(files[i + 1]), files[i + 1])
    /\ processed' = processed + 1
    /\ messages' = messages \o <<Msg("start"), Msg("saved")>>
    /\ UNCHANGED skipped
    /\ EndOfIteration

\* which_ffmpeg() is None: convert_with_ffmpeg returns (False, "FFmpeg no
\* encontrado ...") for this file; skipped += 1; two messages
StepConverterMissing ==
    /\ InLoop
    /\ Reaches(files[i + 1])
    /\ ~ffmpegFound
    /\ invoked' = Append(invoked, Call(files[i + 1], FALSE))
    /\ skipped' = skipped + 1
    /\ messages' = messages \o <<Msg("start"), Msg("error")>>
    /\ UNCHANGED <<processed, fs>>
    /\ EndOfIteration

\* StepConverterFailed that reports the failure and does not count it
StepConverterFailedUncounted ==
    /\ InLoop
    /\ Reaches(files[i + 1])
    /\ ffmpegFound
    /\ invoked' = Append(invoked, Call(files[i + 1], TRUE))
    /\ messages' = messages \o <<Msg("start"), Msg("error")>>
    /\ UNCHANGED <<processed, skipped, fs>>
    /\ EndOfIteration

\* the converter exits non-zero or cannot be run: (False, detail); what it
\* had written of the output stays
StepConverterFailed ==
    /\ InLoop
    /\ Reaches(files[i + 1])
    /\ ffmpegFound
    /\ invoked' = Append(invoked, Call(files[i + 1], TRUE))
    /\ \/ fs' = fs
       \/ fs' = Written(OutPath(files[i + 1]), "partial")
    /\ skipped' = skipped + 1
    /\ messages' = messages \o <<Msg("start"), Msg("error")>>
    /\ UNCHANGED processed
    /\ EndOfIteration

\* an exception before the converter is called (resolve() or exists() on the
\* output path): except: skipped += 1; the error and the traceback
StepRaisedEarly ==
    /\ InLoop
    /\ Bpm(files[i + 1]) # None
    /\ skipped' = skipped + 1
    /\ messages' = messages \o <<Msg("error"), Msg("traceback")>>
    /\ UNCHANGED <<processed, fs, invoked>>
    /\ EndOfIteration

\* an exception out of convert_with_ffmpeg (its which_ffmpeg() and
\* dst.parent.mkdir() are outside its try): the same except, after "start"
StepRaisedLate ==
    /\ InLoop
    /\ Reaches(files[i + 1])
    /\ invoked' = Append(invoked, Call(files[i + 1], FALSE))
    /\ skipped' = skipped + 1
    /\ messages' = messages \o <<Msg("start"), Msg("error"), Msg("traceback")>>
    /\ UNCHANGED <<processed, fs>>
    /\ EndOfIteration

\* self.finished_ok.emit(processed, skipped)
RunFinish ==
    /\ pc = "loop"
    /\ i = Len(files)
    /\ finished' = Append(finished, <<processed, skipped>>)
    /\ pc' = "done"
    /\ UNCHANGED <<settings, fs, i, processed, skipped, messages, progress,
                   invoked, summary, others>>

\* App.on_finished: the summary line
OnFinished ==
    /\ Len(summary) < Len(finished)
    /\ summary' = Append(summary, finished[Len(summary) + 1])
    /\ UNCHANGED <<settings, fs, pc, i, processed, skipped, messages, progress,
                   finished, invoked, others>>

Next == \/ RunStart \/ RunMkdirRaises
        \/ StepNoBpm \/ StepExists
        \/ StepConverted \/ StepConverterMissing \/ StepConverterFailed
        \/ StepRaisedEarly \/ StepRaisedLate
        \/ RunFinish \/ OnFinished

Spec == Init /\ [][Next]_vars

(***************************************************************************)
(* Properties                                                              *)
(***************************************************************************)
NoBpmCount(k) == Cardinality({j \in 1..k : Bpm(files[j]) = None})
KindCount(kinds) == Cardinality({k \in DOMAIN messages : messages[k].kind \in kinds})
KindsOf(k) ==
    LET OfFile(m) == m.file = k
        own == SelectSeq(messages, OfFile)
    IN  [j \in 1..Len(own) |-> own[j].kind]

\* C1: with a converter present, processed + skipped counts the files handled
\* so far and skipped covers the files without a BPM; the counts reported by
\* finished_ok add up to the number of files; and every iteration increments
\* exactly one of the two counters, by one.
C1_CountsAddUp ==
    /\ [](ffmpegFound =>
            /\ pc \in {"loop", "done"} =>
                  /\ processed + skipped = i
                  /\ skipped >= NoBpmCount(i)
            /\ pc = "done" =>
                  /\ finished = << <<processed, skipped>> >>
                  /\ finished[1][1] + finished[1][2] = Len(files)
                  /\ finished[1][2] >= NoBpmCount(Len(files)))
    /\ [][(ffmpegFound /\ i' = i + 1) =>
            \/ processed' = processed + 1 /\ skipped' = skipped
            \/ processed' = processed /\ skipped' = skipped + 1]_vars

\* a finished run with a converter that converted a file and skipped one
\* that has no BPM
C1_Witness ==
    /\ pc = "done" /\ ffmpegFound
    /\ finished # <<>>
    /\ processed >= 1
    /\ NoBpmCount(Len(files)) >= 1

\* C2: without a converter binary a finished run has reported exactly one
\* error message, whatever the number of files, and has converted nothing.
C2_SingleFatalMessage ==
    (pc = "done" /\ ~ffmpegFound) =>
        /\ KindCount({"error"}) = 1
        /\ processed = 0

\* C3: a run never raises, and a run that has ended has emitted finished_ok
\* exactly once.
C3_RunEndsWithCompletion ==
    /\ pc # "raised"
    /\ Len(finished) <= 1
    /\ pc = "done" => Len(finished) = 1

FracClose(p, q, bound) ==
    IF p = q THEN TRUE ELSE Abs(p.n * q.d - q.n * p.d) <= bound \div TolDen

StagesInRange == \A k \in DOMAIN factors :
                    FracLeq(Half, factors[k]) /\ FracLeq(factors[k], Two)

\* C4, as claimed: the chain is not empty, every stage lies in [0.5, 2.0] and
\* the product of the stages is within 1e-6 of target / source.
C4_ProductWithinAbsolute ==
    chainPc = "done" =>
        LET p == Product(factors)
            q == Frac(targetBpm, sourceBpm)
        IN  /\ factors # <<>>
            /\ StagesInRange
            /\ FracClose(p, q, p.d * q.d)

\* C4, amended: the chain is not empty, every stage lies in [0.5, 2.0], the
\* product of the stages is within 1e-6 of target / source relative to the
\* product (|product - ratio| <= 1e-6 * product), and the chain returned has
\* one formatted stage per factor, each from 0.500000 to 2.000000.
C4_ProductWithinRelative ==
    chainPc = "done" =>
        LET p == Product(factors)
            q == Frac(targetBpm, sourceBpm)
        IN  /\ factors # <<>>
            /\ StagesInRange
            /\ FracClose(p, q, p.n * q.d)
            /\ Len(chain) = Len(factors)
            /\ \A k \in DOMAIN chain : 500000 <= chain[k] /\ chain[k] <= 2000000

\* 2.0 stages were extracted and the remainder, close to 1.0 and not 1.0, was
\* not appended
C4_Witness ==
    /\ chainPc = "done"
    /\ factors # <<>> /\ \A k \in DOMAIN factors : factors[k] = Two
    /\ r # One /\ ~FarFromOne(r)

MessagePatterns ==
    { <<"skip_nobpm">>, <<"skip_exists">>,
      <<"start", "saved">>, <<"start", "error">>,
      <<"error", "traceback">>, <<"start", "error", "traceback">> }

\* C5, as claimed: a finished run has emitted as many messages as it has files.
C5_OneMessagePerFile == pc = "done" => Len(messages) = Len(files)

\* C5, amended: every file handled has exactly one outcome message (saved,
\* skipped or error), preceded by one "start" message when the converter was
\* called and followed by one traceback message when an exception was caught;
\* a file not yet handled has none.  So N files give N to 3N messages.
C5_OneOutcomeMessagePerFile ==
    /\ \A k \in 1..Len(files) :
          IF k <= i THEN KindsOf(k) \in MessagePatterns ELSE KindsOf(k) = <<>>
    /\ KindCount({"skip_nobpm", "skip_exists", "saved", "error"}) = i
    /\ i <= Len(messages) /\ Len(messages) <= 3 * i

\* a finished run with a file converted (two messages) and a file skipped
\* (one message)
C5_Witness ==
    /\ pc = "done"
    /\ KindCount({"saved"}) >= 1
    /\ KindCount({"skip_nobpm", "skip_exists"}) >= 1
    /\ Len(messages) > Len(files)

AsciiNameChar(c) == IsAsciiAlpha(c) \/ IsDigit(c) \/ c \in {"_", "-", " "}
AsciiStem(path) ==
    \A k \in DOMAIN PathStem(PathName(path)) : AsciiNameChar(PathStem(PathName(path))[k])

\* C6, as claimed: safe_out_path applied to its own result, with the same
\* flatten flag and suffix, returns the same file name.
C6_Idempotent == pathPc = "twice" => PathName(pathOut2) = PathName(pathOut)

\* C6, amended: with flatten on and an empty suffix, for a source whose stem
\* is made of ASCII letters, digits, spaces, underscores and hyphens,
\* safe_out_path applied to its own result returns the same path.
C6_IdempotentFlatNoSuffix ==
    (pathPc = "twice" /\ pathFlat /\ pathSuffix = <<>> /\ AsciiStem(pathSrc)) =>
        pathOut2 = pathOut

\* such a call whose first result is a sanitised name, neither the source's
\* stem nor the placeholder
C6_Witness ==
    /\ pathPc = "twice" /\ pathFlat /\ pathSuffix = <<>> /\ AsciiStem(pathSrc)
    /\ PathStem(PathName(pathOut)) # PathStem(PathName(pathSrc))
    /\ PathStem(PathName(pathOut)) # Placeholder
    /\ \E k \in DOMAIN PathStem(PathName(pathSrc)) :
          IsDigit(PathStem(PathName(pathSrc))[k])

TagPositions(base) == {p \in 1..Len(base) : TagMatchAt(base, p)}
TaggedInRange(base) ==
    {TagValueAt(base, p) : p \in {q \in TagPositions(base) : InBpmRange(TagValueAt(base, q))}}

\* C7: when the base name holds a "bpm" tag with a value in [40, 220] (and any
\* other tags hold values out of range), guess_bpm_from_name returns that value.
C7_TaggedValueReturned ==
    bpmPc = "done" =>
        LET tagged == TaggedInRange(PathStem(PathName(bpmName)))
        IN  Cardinality(tagged) = 1 => bpmResult \in tagged

\* C8: with no tagged value in range and several distinct standalone numbers
\* in range, guess_bpm_from_name returns the one whose last occurrence is
\* latest in the base name.
C8_LatestCandidateWins ==
    bpmPc = "done" =>
        LET base  == PathStem(PathName(bpmName))
            cands == Range(SelectSeqInRange(Numbers23(base)))
        IN  (TaggedInRange(base) = {} /\ Cardinality(cands) >= 2) =>
                \A c \in cands :
                    RFind(base, StrOfInt(c)) <= RFind(base, StrOfInt(bpmResult))

\* C9: in an iteration the converter is called only for a file with a BPM
\* whose output path does not exist or may be overwritten; a file without a
\* BPM, or whose output exists while overwrite is off, is counted as skipped,
\* the converter is not called and the file system stays as it is.
C9_ConverterOnlyWhenDue ==
    [][i' = i + 1 =>
        LET f == files[i + 1]
        IN  /\ invoked' # invoked =>
                  /\ Bpm(f) # None
                  /\ ~Exists(OutPath(f)) \/ overwrite
            /\ (Bpm(f) = None \/ (Exists(OutPath(f)) /\ ~overwrite)) =>
                  /\ skipped' = skipped + 1 /\ processed' = processed
                  /\ invoked' = invoked
                  /\ fs' = fs]_vars

\* a finished run that skipped a file whose output existed, which still holds
\* what it held, and called the converter for another
C9_Witness ==
    /\ pc = "done" /\ ~overwrite
    /\ invoked # <<>>
    /\ \E k \in DOMAIN messages :
          /\ messages[k].kind = "skip_exists"
          /\ \A c \in Range(invoked) : c.file # messages[k].file
          /\ Exists(OutPath(files[messages[k].file]))

\* C10: with flatten off, files of distinct source paths handled in one run
\* have distinct output paths.
C10_DistinctOutputs ==
    ~flat_names =>
        \A j, k \in 1..i :
            files[j] # files[k] => OutPath(files[j]) # OutPath(files[k])

====
